---------------------------- MODULE Spec2Model ----------------------------
(***************************************************************************)
(* A model of two routines of the hydrodynamics core:                      *)
(*   - DynGRPS::FOFC   (src/src/dyngr/dyngr_fofc.cpp), the first-order     *)
(*     flux correction, as the state machine                               *)
(*        newu (par_for) -> ConsToPrim test -> flx (par_for) -> return;    *)
(*   - HLLE::RSolver   (src/unnamed/part_000, hlle.cpp), the HLLE Riemann  *)
(*     solver, as a loop over the interfaces il..iu.                       *)
(* Values of type Real are modelled as exact rationals <<num, den>> in     *)
(* lowest terms (den > 0); rounding of the floating-point type is not      *)
(* modelled.  Square roots are taken exactly, and the inputs are drawn     *)
(* from states whose square roots are rational.                            *)
(***************************************************************************)
EXTENDS Integers, Sequences, FiniteSets

VARIABLES
  \* ---- FOFC ----
  pc,        \* position in FOFC: "newu", "flx", "done", "reflx", "redone"
  todo,      \* cells of the running par_for whose task has not run yet
  cfg,       \* mesh / driver inputs: dims, stage, spikes (read-only)
  u0, u1,    \* live conserved buffers           [n][cell]
  utest,     \* scratch candidate buffer         [n][cell]
  w0,        \* cell-centred primitives          [n][cell]
  adm,       \* ADM geometry                     [cell] -> [alpha, betax, gxx]
  flx1, flx2, flx3,  \* face fluxes uflx.x1f/x2f/x3f  [n][cell]
  fofc,      \* flag field                       [cell] -> BOOLEAN
  acc,       \* accesses of the tasks of the running par_for (history)
  snap,      \* x1 flux field when FOFC returned (history)
  npass,     \* number of FOFC-flx passes started by the FOFC invocation
  ret,       \* what FOFC handed to its caller
  \* ---- HLLE ----
  hpc,       \* "loop" or "done"
  hin,       \* inputs of RSolver: eos, ivx, il, iu, wl, wr
  hi,        \* loop index i
  flx,       \* output flux table [n][i]
  htr        \* per-interface trace of locals (bp, bm, tmp, fl, fr, divided)

fvars == <<pc, todo, cfg, u0, u1, utest, w0, adm, flx1, flx2, flx3, fofc,
           acc, snap, npass, ret>>
hvars == <<hpc, hin, hi, flx, htr>>
vars == <<fvars, hvars>>

-----------------------------------------------------------------------------
(* Bounds of the model *)
NX1 == 2
NG == 1
NIface == 2
MaxVel == 1
MaxRaced == 4

-----------------------------------------------------------------------------
(* Real arithmetic.  A Real that is a binary fraction n/2^k is held as the   *)
(* pair <<n, 2^k>> in lowest terms.  IEEE operations are correctly rounded,  *)
(* so an operation whose mathematical result is a binary fraction (of the    *)
(* sizes met here) returns it exactly; any other result is rounded by the    *)
(* hardware, and the model holds it as Inexact, a value it does not track.   *)
(* Inexact is absorbing.  A comparison with an Inexact operand is Untracked: *)
(* the code orders its rounded values, the model does not know how, and      *)
(* whatever is selected by such a comparison is Inexact as well.             *)
Abs(x) == IF x < 0 THEN -x ELSE x

RECURSIVE Gcd(_, _)
Gcd(a, b) == IF b = 0 THEN a ELSE Gcd(b, a % b)

RECURSIVE IsPow2(_)
IsPow2(n) == n = 1 \/ (n > 1 /\ n % 2 = 0 /\ IsPow2(n \div 2))

Inexact == <<0, 0>>
Untracked == "untracked"
Known(a) == a[2] # 0

Rat(n, d) ==
  LET s == IF d < 0 THEN -1 ELSE 1
      g == Gcd(Abs(n), Abs(d))
  IN  <<(s * n) \div g, (s * d) \div g>>

(* the value a Real holds after an operation of mathematical result n/d *)
Tracked(q) == IF IsPow2(q[2]) THEN q ELSE Inexact
Fl(n, d) == IF d = 0 THEN Inexact ELSE Tracked(Rat(n, d))

R(n) == <<n, 1>>
RAdd(a, b) ==
  IF Known(a) /\ Known(b) THEN Fl(a[1] * b[2] + b[1] * a[2], a[2] * b[2]) ELSE Inexact
RSub(a, b) ==
  IF Known(a) /\ Known(b) THEN Fl(a[1] * b[2] - b[1] * a[2], a[2] * b[2]) ELSE Inexact
RMul(a, b) ==
  IF Known(a) /\ Known(b) THEN Fl(a[1] * b[1], a[2] * b[2]) ELSE Inexact
RDiv(a, b) ==
  IF Known(a) /\ Known(b) THEN Fl(a[1] * b[2], a[2] * b[1]) ELSE Inexact
RLt(a, b) == IF Known(a) /\ Known(b) THEN a[1] * b[2] < b[1] * a[2] ELSE Untracked
RMin(a, b) == IF Known(a) /\ Known(b) THEN (IF RLt(b, a) THEN b ELSE a) ELSE Inexact
RMax(a, b) == IF Known(a) /\ Known(b) THEN (IF RLt(a, b) THEN b ELSE a) ELSE Inexact
SQR(a) == RMul(a, a)
Zero == R(0)
Half == <<1, 2>>

IsSquare(n) == n >= 0 /\ \E k \in 0..n : k * k = n
ISqrt(n) == CHOOSE k \in 0..n : k * k = n
RIsSquare(a) == Known(a) /\ IsSquare(a[1]) /\ IsSquare(a[2])
RSqrt(a) == IF RIsSquare(a) THEN <<ISqrt(a[1]), ISqrt(a[2])>> ELSE Inexact

-----------------------------------------------------------------------------
(* Variable indices *)
IDN == 0
IM1 == 1
IM2 == 2
IM3 == 3
IEN == 4
IVX == 1
IVY == 2
IVZ == 3
IPR == 4
CDN == 0
CSX == 1
CSY == 2
CSZ == 3
CTA == 4
nhydro == 5
HydVars == 0..(nhydro - 1)


-----------------------------------------------------------------------------
(* Mesh indices (mb_indcs), for the mesh configuration cfg.dims = 1, 2, 3.  *)
(* Inactive dimensions have one cell and no ghost cells.                    *)
multi_d == cfg.dims >= 2
three_d == cfg.dims >= 3
nx1 == NX1
nx2 == IF multi_d THEN 2 ELSE 1
nx3 == IF three_d THEN 2 ELSE 1
is == NG
ie == is + nx1 - 1
js == IF multi_d THEN NG ELSE 0
je == js + nx2 - 1
ks == IF three_d THEN NG ELSE 0
ke == ks + nx3 - 1
nmb == 1

(* Cells are <<m, k, j, i>>.  AllCells is the index space of every array:   *)
(* the interior and NG ghost layers in each active dimension, a single      *)
(* layer in an inactive one.                                                *)
Interior == {<<m, k, j, i>> : m \in 0..(nmb - 1), k \in ks..ke, j \in js..je, i \in is..ie}
AllCells == {<<m, k, j, i>> : m \in 0..(nmb - 1),
                              k \in 0..(IF three_d THEN ke + NG ELSE 0),
                              j \in 0..(IF multi_d THEN je + NG ELSE 0),
                              i \in 0..(ie + NG)}
X1Faces == is..(ie + 1)

(* The order in which the Serial execution space runs the tasks of a       *)
(* par_for: m slowest, i fastest.  cfg.order = "serial" runs the tasks in   *)
(* that order, cfg.order = "any" in every order (a parallel execution       *)
(* space).  Packs of at most MaxRaced cells run their tasks in every order. *)
CellRank(c) == ((c[1] * 100 + c[2]) * 100 + c[3]) * 100 + c[4]
Runnable(c) ==
  /\ c \in todo
  /\ cfg.order = "serial" => \A d \in todo : CellRank(c) <= CellRank(d)

Ip1(c) == <<c[1], c[2], c[3], c[4] + 1>>
Im1(c) == <<c[1], c[2], c[3], c[4] - 1>>
Jp1(c) == <<c[1], c[2], c[3] + 1, c[4]>>
Kp1(c) == <<c[1], c[2] + 1, c[3], c[4]>>

(* Driver coefficients gam0[], gam1[], beta[] (two-stage integrator), the   *)
(* time step and the cell sizes.                                            *)
gam0arr == <<R(0), Half>>
gam1arr == <<R(1), Half>>
betaarr == <<R(1), Half>>
NStages == Len(betaarr)
dt == R(1)
mb_size == [dx1 |-> R(2), dx2 |-> R(1), dx3 |-> R(4)]

(* Input fields of an invocation, as functions of cfg *)
U0At(n, c) == R(4 + n + c[4])
InitU0 == [n \in HydVars |-> [c \in AllCells |-> U0At(n, c)]]
U1At(n, c) == R(6 + 2 * n + c[3])
InitU1 == [n \in HydVars |-> [c \in AllCells |-> U1At(n, c)]]
InitW0 ==
  [n \in HydVars |-> [c \in AllCells |->
     CASE n = IDN -> R(1 + c[4])
       [] n = IVX -> Rat(c[4] - 1, 2)
       [] n = IVY -> R(c[3])
       [] n = IVZ -> Rat(c[2], 2)
       [] OTHER   -> R(2 + c[2] + c[4])]]
InitAdm == [c \in AllCells |-> [alpha |-> Rat(2 + c[4], 2), betax |-> Rat(c[4], 4),
                                gxx |-> R(1 + c[3])]]
Spike(n, c) ==
  IF n = IDN /\ c[2] = ks /\ c[3] = js /\ c[4] \in cfg.spikes
  THEN R(cfg.sign * 40 * (c[4] + 1)) ELSE Zero
Flx1At(n, c) == RAdd(R(n + c[4]), Spike(n, c))
InitFlx1 == [n \in HydVars |-> [c \in AllCells |-> Flx1At(n, c)]]
Flx2At(n, c) == R(2 * c[3] + n)
InitFlx2 == [n \in HydVars |-> [c \in AllCells |-> Flx2At(n, c)]]
Flx3At(n, c) == R(3 * c[2] - n)
InitFlx3 == [n \in HydVars |-> [c \in AllCells |-> Flx3At(n, c)]]
InitUtest == [n \in HydVars |-> [c \in AllCells |-> Zero]]
InitFofc == [c \in AllCells |-> FALSE]

-----------------------------------------------------------------------------
(* FOFC, lines 39-41: the stage coefficients *)
gam0 == gam0arr[cfg.stage]
gam1 == gam1arr[cfg.stage]
beta_dt == RMul(betaarr[cfg.stage], dt)

(* FOFC-newu, lines 57-69: the flux divergence of variable n in cell c *)
DivfX2Guard3D(n, c) ==
  LET dtodx1 == RDiv(beta_dt, mb_size.dx1)
      dtodx2 == RDiv(beta_dt, mb_size.dx2)
      dtodx3 == RDiv(beta_dt, mb_size.dx3)
      d1 == RMul(dtodx1, RSub(flx1[n][Ip1(c)], flx1[n][c]))
      d2 == IF three_d
            THEN RAdd(d1, RMul(dtodx2, RSub(flx2[n][Jp1(c)], flx2[n][c]))) ELSE d1
      d3 == IF three_d
            THEN RAdd(d2, RMul(dtodx3, RSub(flx3[n][Kp1(c)], flx3[n][c]))) ELSE d2
  IN  d3

Divf(n, c) ==
  LET dtodx1 == RDiv(beta_dt, mb_size.dx1)
      dtodx2 == RDiv(beta_dt, mb_size.dx2)
      dtodx3 == RDiv(beta_dt, mb_size.dx3)
      d1 == RMul(dtodx1, RSub(flx1[n][Ip1(c)], flx1[n][c]))
      d2 == IF multi_d
            THEN RAdd(d1, RMul(dtodx2, RSub(flx2[n][Jp1(c)], flx2[n][c]))) ELSE d1
      d3 == IF three_d
            THEN RAdd(d2, RMul(dtodx3, RSub(flx3[n][Kp1(c)], flx3[n][c]))) ELSE d2
  IN  d3

(* line 70: the candidate value *)
NewU(n, c) == RSub(RAdd(RMul(gam0, u0[n][c]), RMul(gam1, u1[n][c])), Divf(n, c))

(* The slots a FOFC-newu task reads and writes (array, cell) *)
NewuReads(c) ==
  {<<"flx1", c>>, <<"flx1", Ip1(c)>>, <<"u0", c>>, <<"u1", c>>}
  \cup (IF multi_d THEN {<<"flx2", c>>, <<"flx2", Jp1(c)>>} ELSE {})
  \cup (IF three_d THEN {<<"flx3", c>>, <<"flx3", Kp1(c)>>} ELSE {})
NewuWrites(c) == {<<"utest", c>>}

(* lines 62-71: the store of the candidate state, into the live buffer *)
NewuStoreLive(c) ==
  /\ u0' = [n \in HydVars |-> [u0[n] EXCEPT ![c] = NewU(n, c)]]
  /\ UNCHANGED <<utest, u1, w0, adm, flx1, flx2, flx3>>

(* lines 62-71: the store of the candidate state, into the scratch buffer *)
NewuStore(c) ==
  /\ utest' = [n \in HydVars |-> [utest[n] EXCEPT ![c] = NewU(n, c)]]
  /\ UNCHANGED <<u0, u1, w0, adm, flx1, flx2, flx3>>

(* One task of par_for "FOFC-newu" (lines 55-72) *)
FOFC_newu(c) ==
  /\ pc = "newu"
  /\ Runnable(c)
  /\ NewuStore(c)
  /\ todo' = todo \ {c}
  /\ acc' = acc \cup {<<c, "r", s>> : s \in NewuReads(c)}
                \cup {<<c, "w", s>> : s \in NewuWrites(c)}
  /\ UNCHANGED <<pc, cfg, fofc, snap, npass, ret, hvars>>

(* eos.ConsToPrim(utest, w0, ..., true), line 76: the test-only conversion  *)
(* reports per cell whether floors would be needed.                         *)
dfloor == R(1)
FloorsNeeded(ut, c) ==
  IF Known(ut[IDN][c]) /\ Known(ut[IEN][c])
  THEN RLt(ut[IDN][c], dfloor) \/ RLt(ut[IEN][c], Zero)
  ELSE Untracked

ConsToPrimTest ==
  /\ pc = "newu"
  /\ todo = {}
  /\ fofc' = [c \in AllCells |-> IF c \in Interior THEN FloorsNeeded(utest, c) ELSE fofc[c]]
  /\ pc' = "flx"
  /\ todo' = Interior
  /\ acc' = {}
  /\ npass' = npass + 1
  /\ UNCHANGED <<cfg, u0, u1, utest, w0, adm, flx1, flx2, flx3, snap, ret, hvars>>

-----------------------------------------------------------------------------
(* ExtractPrimitives(w0, w, eos, nhyd, nscal, m, k, j, i): the primitives   *)
(* of one cell.                                                             *)
ExtractPrimitives(w, c) == [n \in HydVars |-> w[n][c]]

(* Face1Metric(m, k, j, i, ...): the geometry at the x1-face i, between the *)
(* cells i-1 and i.                                                         *)
Face1Metric(c) ==
  [alpha |-> RMul(Half, RAdd(adm[Im1(c)].alpha, adm[c].alpha)),
   betax |-> RMul(Half, RAdd(adm[Im1(c)].betax, adm[c].betax)),
   gxx   |-> RMul(Half, RAdd(adm[Im1(c)].gxx, adm[c].gxx))]

(* SingleStateLLF_DYNGR(eos, wl, wr, IVX, g3d, beta_u, alpha, flux): a      *)
(* local Lax-Friedrichs flux of the two states in the given geometry.       *)
LLFCons(w) ==
  [q \in HydVars |->
     CASE q = CDN -> w[IDN]
       [] q = CTA -> RAdd(w[IPR], RMul(Half, RMul(w[IDN], SQR(w[IVX]))))
       [] OTHER   -> RMul(w[IDN], w[q])]
LLFFlux(w, g) ==
  LET vt == RSub(RMul(g.alpha, w[IVX]), g.betax)
      pt == RMul(g.alpha, w[IPR])
  IN  [q \in HydVars |->
         CASE q = CSX -> RAdd(RMul(LLFCons(w)[q], vt), pt)
           [] q = CTA -> RAdd(RMul(LLFCons(w)[q], vt), RMul(pt, w[IVX]))
           [] OTHER   -> RMul(LLFCons(w)[q], vt)]
SingleStateLLF(wl, wr, g) ==
  LET lambda == RAdd(g.alpha, Rat(Abs(g.betax[1]), g.betax[2]))
  IN  [q \in HydVars |->
         RMul(g.gxx,
              RSub(RMul(Half, RAdd(LLFFlux(wl, g)[q], LLFFlux(wr, g)[q])),
                   RMul(RMul(Half, lambda), RSub(LLFCons(wr)[q], LLFCons(wl)[q]))))]

(* lines 107-111: flux component stored in each conserved-variable slot *)
FluxComp == [n \in HydVars |->
               CASE n = IDN -> CDN [] n = IM1 -> CSX [] n = IM2 -> CSY
                 [] n = IM3 -> CSZ [] OTHER -> CTA]

(* lines 91-104: the first-order flux a FOFC-flx task computes for cell c *)
FirstOrderFlux(c) ==
  LET wim1 == ExtractPrimitives(w0, Im1(c))
      wi   == ExtractPrimitives(w0, c)
  IN  SingleStateLLF(wim1, wi, Face1Metric(c))

(* line 89: the guard of the task *)
FlaggedAlways(c) == TRUE
Flagged(c) == fofc[c]

(* lines 107-111: the x1-face slots the task of cell c stores into *)
PatchedFacesBoth(c) == {c, Ip1(c)}
PatchedFaces(c) == {Ip1(c)}

(* lines 107-111: the stored value, given the slot's old value *)
StoreFluxAccum(old, new) == RAdd(old, new)
StoreFlux(old, new) == new

(* lines 89-112: the x1 flux field after the task of cell c ran on field f *)
PatchFlx(f, c) ==
  IF Flagged(c)
  THEN LET flux == FirstOrderFlux(c)
       IN  [n \in HydVars |-> [s \in AllCells |->
              IF s \in PatchedFaces(c) THEN StoreFlux(f[n][s], flux[FluxComp[n]])
              ELSE f[n][s]]]
  ELSE f

(* The slots a FOFC-flx task reads and writes *)
FlxReads(c) ==
  {<<"fofc", c>>}
  \cup (IF Flagged(c)
        THEN {<<"w0", Im1(c)>>, <<"w0", c>>, <<"adm", Im1(c)>>, <<"adm", c>>} ELSE {})
FlxWrites(c) == IF Flagged(c) THEN {<<"flx1", s>> : s \in PatchedFaces(c)} ELSE {}

(* One task of par_for "FOFC-flx" (lines 86-113) *)
FOFC_flx(c) ==
  /\ pc \in {"flx", "reflx"}
  /\ Runnable(c)
  /\ flx1' = PatchFlx(flx1, c)
  /\ todo' = todo \ {c}
  /\ acc' = acc \cup {<<c, "r", s>> : s \in FlxReads(c)}
                \cup {<<c, "w", s>> : s \in FlxWrites(c)}
  /\ UNCHANGED <<pc, cfg, u0, u1, utest, w0, adm, flx2, flx3, fofc, snap, npass, ret,
                 hvars>>

(* The candidate of cell c recomputed from the current fluxes would still   *)
(* need floors.                                                             *)
StillViolates(c) ==
  FloorsNeeded([n \in HydVars |-> [s \in AllCells |-> NewU(n, c)]], c)

(* line 114: FOFC returns (void) once the FOFC-flx tasks are done *)
ReturnStatusChecked ==
  IF \E c \in Interior : StillViolates(c) THEN "floor_violation" ELSE "void"
ReturnStatus == "void"

FOFC_return ==
  /\ pc = "flx"
  /\ todo = {}
  /\ pc' = "done"
  /\ ret' = ReturnStatus
  /\ snap' = flx1
  /\ UNCHANGED <<todo, cfg, u0, u1, utest, w0, adm, flx1, flx2, flx3, fofc, acc, npass,
                 hvars>>

(* The FOFC-flx par_for (lines 86-113) dispatched once more on the patched  *)
(* flux field, flags, primitives and geometry as FOFC left them.            *)
FlxPassAgain ==
  /\ pc = "done"
  /\ pc' = "reflx"
  /\ todo' = Interior
  /\ acc' = {}
  /\ UNCHANGED <<cfg, u0, u1, utest, w0, adm, flx1, flx2, flx3, fofc, snap, npass, ret,
                 hvars>>

FlxPassEnd ==
  /\ pc = "reflx"
  /\ todo = {}
  /\ pc' = "redone"
  /\ UNCHANGED <<todo, cfg, u0, u1, utest, w0, adm, flx1, flx2, flx3, fofc, acc, snap,
                 npass, ret, hvars>>

HIdle ==
  /\ hpc = "idle" /\ hin = <<>> /\ hi = 0 /\ flx = <<>> /\ htr = <<>>

Init ==
  /\ cfg \in [dims : 1..3, stage : 1..NStages, spikes : SUBSET X1Faces,
              sign : {-1, 1}, order : {"any", "serial"}]
  /\ cfg.order = "any" <=> nx1 * nx2 * nx3 <= MaxRaced
  /\ pc = "newu"
  /\ todo = Interior
  /\ u0 = InitU0
  /\ u1 = InitU1
  /\ utest = InitUtest
  /\ w0 = InitW0
  /\ adm = InitAdm
  /\ flx1 = InitFlx1
  /\ flx2 = InitFlx2
  /\ flx3 = InitFlx3
  /\ fofc = InitFofc
  /\ acc = {}
  /\ snap = InitFlx1
  /\ npass = 0
  /\ ret = "running"
  /\ HIdle

Next ==
  \/ \E c \in Interior : FOFC_newu(c)
  \/ ConsToPrimTest
  \/ \E c \in Interior : FOFC_flx(c)
  \/ FOFC_return
  \/ FlxPassAgain
  \/ FlxPassEnd

Spec == Init /\ [][Next]_vars

-----------------------------------------------------------------------------
(* HLLE::RSolver (hlle.cpp).  eos = [adiabatic, gamma, iso_cs].             *)

(* peos->SoundSpeed(w): ideal gas sqrt(gamma*p/d), or the isothermal speed  *)
SoundSpeed(eos, w) ==
  IF eos.adiabatic THEN RSqrt(RDiv(RMul(eos.gamma, w[IPR]), w[IDN])) ELSE eos.iso_cs

(* lines 50-51 *)
Ivy(ivx) == IVX + (((ivx - IVX) + 1) % 3)
Ivz(ivx) == IVX + (((ivx - IVX) + 2) % 3)

(* lines 66-76: column i of a table, loaded with the normal direction first. *)
(* The pressure slot is not loaded (and not read) for an isothermal eos.    *)
LoadState(eos, ivx, w, i) ==
  [n \in HydVars |->
     CASE n = IDN -> w[IDN][i]
       [] n = IVX -> w[ivx][i]
       [] n = IVY -> w[Ivy(ivx)][i]
       [] n = IVZ -> w[Ivz(ivx)][i]
       [] OTHER   -> IF eos.adiabatic THEN w[IPR][i] ELSE Zero]

(* lines 80-87: Roe-averaged velocities *)
RoeVel(wli, wri, n) ==
  LET sqrtdl == RSqrt(wli[IDN])
      sqrtdr == RSqrt(wri[IDN])
      isdlpdr == RDiv(R(1), RAdd(sqrtdl, sqrtdr))
  IN  RMul(RAdd(RMul(sqrtdl, wli[n]), RMul(sqrtdr, wri[n])), isdlpdr)

(* lines 93-94: total energy of a state *)
TotalE(eos, w) ==
  LET igm1 == RDiv(R(1), RSub(eos.gamma, R(1)))
  IN  RAdd(RMul(w[IPR], igm1),
           RMul(RMul(Half, w[IDN]), RAdd(RAdd(SQR(w[IVX]), SQR(w[IVY])), SQR(w[IVZ]))))

(* line 95 *)
Hroe(eos, wli, wri) ==
  LET sqrtdl == RSqrt(wli[IDN])
      sqrtdr == RSqrt(wri[IDN])
      isdlpdr == RDiv(R(1), RAdd(sqrtdl, sqrtdr))
  IN  RMul(RAdd(RDiv(RAdd(TotalE(eos, wli), wli[IPR]), sqrtdl),
                RDiv(RAdd(TotalE(eos, wri), wri[IPR]), sqrtdr)), isdlpdr)

(* line 104 *)
RoeQ(eos, wli, wri) ==
  RSub(Hroe(eos, wli, wri),
       RMul(Half, RAdd(RAdd(SQR(RoeVel(wli, wri, IVX)), SQR(RoeVel(wli, wri, IVY))),
                       SQR(RoeVel(wli, wri, IVZ)))))

(* lines 102-106: sound speed of the Roe-averaged state *)
RoeA(eos, wli, wri) ==
  IF eos.adiabatic
  THEN LET q == RoeQ(eos, wli, wri)
       IN  IF ~Known(q) THEN Inexact
           ELSE IF RLt(q, Zero) THEN Zero ELSE RSqrt(RMul(RSub(eos.gamma, R(1)), q))
  ELSE eos.iso_cs

(* lines 109-110: the wave speeds *)
WaveAl(eos, wli, wri) ==
  RMin(RSub(RoeVel(wli, wri, IVX), RoeA(eos, wli, wri)),
       RSub(wli[IVX], SoundSpeed(eos, wli)))
WaveAr(eos, wli, wri) ==
  RMax(RAdd(RoeVel(wli, wri, IVX), RoeA(eos, wli, wri)),
       RAdd(wri[IVX], SoundSpeed(eos, wri)))

(* lines 112-113 *)
Bp(ar) == IF ~Known(ar) THEN Inexact ELSE IF RLt(Zero, ar) THEN ar ELSE Zero
Bm(al) == IF ~Known(al) THEN Inexact ELSE IF RLt(al, Zero) THEN al ELSE Zero

(* lines 116-139: the flux of state w along the line of speed b, F - b*U *)
SweptFlux(eos, w, b) ==
  LET vx == RSub(w[IVX], b)
  IN  [n \in HydVars |->
         CASE n = IDN -> RMul(w[IDN], vx)
           [] n = IVX -> RAdd(RMul(RMul(w[IDN], w[IVX]), vx),
                              IF eos.adiabatic THEN w[IPR]
                              ELSE RMul(RMul(eos.iso_cs, eos.iso_cs), w[IDN]))
           [] n = IVY -> RMul(RMul(w[IDN], w[IVY]), vx)
           [] n = IVZ -> RMul(RMul(w[IDN], w[IVZ]), vx)
           [] OTHER   -> IF eos.adiabatic
                         THEN RAdd(RMul(TotalE(eos, w), vx), RMul(w[IPR], w[IVX]))
                         ELSE Zero]

(* lines 142-143: the blend coefficient, and whether the division is made *)
Divides(bp, bm) == IF Known(bp) /\ Known(bm) THEN bp # bm ELSE Untracked
BlendCoefHalf(bp, bm) ==
  IF ~(Known(bp) /\ Known(bm)) THEN Inexact
  ELSE IF bp # bm THEN RDiv(RMul(Half, RAdd(bp, bm)), RSub(bp, bm)) ELSE Half
BlendCoef(bp, bm) ==
  IF ~(Known(bp) /\ Known(bm)) THEN Inexact
  ELSE IF Divides(bp, bm) THEN RDiv(RMul(Half, RAdd(bp, bm)), RSub(bp, bm)) ELSE Zero

(* lines 145-149: one component of the HLLE flux *)
HllCombineMinus(l, r, tmp) == RSub(RMul(Half, RAdd(l, r)), RMul(RSub(l, r), tmp))
HllCombine(l, r, tmp) == RAdd(RMul(Half, RAdd(l, r)), RMul(RSub(l, r), tmp))

(* lines 65-149: the locals of one pass of the loop body *)
Interface(eos, ivx, wl, wr, i) ==
  LET wli == LoadState(eos, ivx, wl, i)
      wri == LoadState(eos, ivx, wr, i)
      bp == Bp(WaveAr(eos, wli, wri))
      bm == Bm(WaveAl(eos, wli, wri))
      fl == SweptFlux(eos, wli, bm)
      fr == SweptFlux(eos, wri, bp)
      tmp == BlendCoef(bp, bm)
  IN  [bp |-> bp, bm |-> bm, fl |-> fl, fr |-> fr, tmp |-> tmp,
       divided |-> Divides(bp, bm),
       flxi |-> [n \in HydVars |-> HllCombine(fl[n], fr[n], tmp)]]

(* lines 151-155: the rows of the flux table written for interface i *)
StoreRows(eos, ivx, f, i, flxi) ==
  [n \in HydVars |->
     CASE n = IDN      -> [f[n] EXCEPT ![i] = flxi[IDN]]
       [] n = ivx      -> [f[n] EXCEPT ![i] = flxi[IVX]]
       [] n = Ivy(ivx) -> [f[n] EXCEPT ![i] = flxi[IVY]]
       [] n = Ivz(ivx) -> [f[n] EXCEPT ![i] = flxi[IVZ]]
       [] OTHER        -> IF eos.adiabatic THEN [f[n] EXCEPT ![i] = flxi[IEN]] ELSE f[n]]

(* lines 64-156: one pass of the loop over the interfaces *)
RSolverStep ==
  /\ hpc = "loop"
  /\ hi <= hin.iu
  /\ LET loc == Interface(hin.eos, hin.ivx, hin.wl, hin.wr, hi)
     IN  /\ flx' = StoreRows(hin.eos, hin.ivx, flx, hi, loc.flxi)
         /\ htr' = [htr EXCEPT ![hi] = loc]
  /\ hi' = hi + 1
  /\ UNCHANGED <<hpc, hin, fvars>>

(* line 157 *)
RSolverReturn ==
  /\ hpc = "loop"
  /\ hi > hin.iu
  /\ hpc' = "done"
  /\ UNCHANGED <<hin, hi, flx, htr, fvars>>

(* Inputs of RSolver: the left and right tables hold a pair of states, in   *)
(* this order at the interfaces il, il+2, ... and swapped at il+1, ...      *)
EosSet ==
  {[adiabatic |-> TRUE, gamma |-> R(2), iso_cs |-> Zero],
   [adiabatic |-> TRUE, gamma |-> <<3, 2>>, iso_cs |-> Zero],
   [adiabatic |-> FALSE, gamma |-> R(1), iso_cs |-> Zero],
   [adiabatic |-> FALSE, gamma |-> R(1), iso_cs |-> R(1)]}
StateParams ==
  [d : {R(1), R(4), R(9)}, a : {R(v) : v \in (-MaxVel)..MaxVel}, b : {R(0), R(1)},
   p : {Zero, Half, R(2)}]
MkColumn(ivx, sp) ==
  [n \in HydVars |->
     CASE n = IDN      -> sp.d
       [] n = ivx      -> sp.a
       [] n = Ivy(ivx) -> sp.b
       [] n = Ivz(ivx) -> R(-1)
       [] OTHER        -> sp.p]

(* The inputs drawn are those on which every operation of the loop body has *)
(* a binary fraction as its result, so that the code computes it without    *)
(* rounding: the roots and quotients are tested, the sums and products of   *)
(* tracked values are tracked.                                              *)
TrackedState(eos, w) ==
  /\ Known(RSqrt(w[IDN]))
  /\ Known(SoundSpeed(eos, w))
  /\ eos.adiabatic => Known(RDiv(RAdd(TotalE(eos, w), w[IPR]), RSqrt(w[IDN])))

TrackedInputs(eos, wli, wri) ==
  /\ Known(RDiv(R(1), RAdd(RSqrt(wli[IDN]), RSqrt(wri[IDN]))))
  /\ Known(RoeA(eos, wli, wri))
  /\ Known(BlendCoef(Bp(WaveAr(eos, wli, wri)), Bm(WaveAl(eos, wli, wri))))

FIdle ==
  /\ pc = "idle" /\ todo = {} /\ cfg = <<>> /\ u0 = <<>> /\ u1 = <<>> /\ utest = <<>>
  /\ w0 = <<>> /\ adm = <<>> /\ flx1 = <<>> /\ flx2 = <<>> /\ flx3 = <<>> /\ fofc = <<>>
  /\ acc = {} /\ snap = <<>> /\ npass = 0 /\ ret = "idle"

InitHLLE ==
  /\ \E eos \in EosSet :
       \E sl \in StateParams :
         /\ ~eos.adiabatic => sl.p = Zero
         /\ TrackedState(eos, MkColumn(IVX, sl))
         /\ \E sr \in StateParams :
              /\ ~eos.adiabatic => sr.p = Zero
              /\ TrackedState(eos, MkColumn(IVX, sr))
              /\ TrackedInputs(eos, MkColumn(IVX, sl), MkColumn(IVX, sr))
              /\ TrackedInputs(eos, MkColumn(IVX, sr), MkColumn(IVX, sl))
              /\ \E ivx \in {IVX, IVY, IVZ} :
                   LET pair == <<MkColumn(ivx, sl), MkColumn(ivx, sr)>>
                       il == 1
                       iu == il + NIface - 1
                   IN  /\ hin = [eos |-> eos, ivx |-> ivx, il |-> il, iu |-> iu,
                                 wl |-> [n \in HydVars |-> [i \in il..iu |->
                                           pair[1 + ((i - il) % 2)][n]]],
                                 wr |-> [n \in HydVars |-> [i \in il..iu |->
                                           pair[2 - ((i - il) % 2)][n]]]]
                       /\ hi = il
                       /\ flx = [n \in HydVars |-> [i \in il..iu |-> Zero]]
                       /\ htr = [i \in il..iu |-> <<>>]
  /\ hpc = "loop"
  /\ FIdle

NextHLLE ==
  \/ RSolverStep
  \/ RSolverReturn

SpecHLLE == InitHLLE /\ [][NextHLLE]_vars

-----------------------------------------------------------------------------
(* Properties of FOFC *)

FlaggedCells == {c \in Interior : fofc[c]}
Returned == pc = "done"

(* C1: when FOFC has returned, for every flagged interior cell (m,k,j,i)    *)
(* the x1-flux slot of the face i, flx1(m,.,k,j,i), holds the first-order   *)
(* flux of the cell-centred states of the cells i-1 and i in the geometry   *)
(* of that face.                                                            *)
C1_FluxAtLowerFace ==
  Returned =>
    \A c \in FlaggedCells : \A n \in HydVars :
      flx1[n][c] = FirstOrderFlux(c)[FluxComp[n]]

(* C2: a task of an unflagged cell writes no flux slot; when no cell is     *)
(* flagged, flx1, flx2 and flx3 after FOFC are the fluxes FOFC was given.   *)
C2_UnflaggedNoOp ==
  /\ pc \in {"flx", "done"} => \A e \in acc : e[2] = "w" => fofc[e[1]]
  /\ (pc \in {"flx", "done"} /\ FlaggedCells = {}) =>
       (flx1 = InitFlx1 /\ flx2 = InitFlx2 /\ flx3 = InitFlx3)

C2_Witness == Returned /\ FlaggedCells = {} /\ todo = {} /\ npass = 1

(* C6: the FOFC-flx pass run again on the patched flux field, with flags,   *)
(* primitives and geometry unchanged, leaves every x1-flux slot as the      *)
(* first pass left it.                                                      *)
C6_PhaseBIdempotent ==
  pc \in {"reflx", "redone"} => flx1 = snap

C6_Witness == pc = "redone" /\ FlaggedCells # {} /\ flx1 # InitFlx1

(* C7 as stated: when a cell would still need floors after the correction   *)
(* pass, FOFC hands its caller a floor-violation condition.                 *)
C7_FailureSurfaced ==
  (Returned /\ \E c \in Interior : StillViolates(c)) => ret = "floor_violation"

(* C7 amended: FOFC runs exactly one correction pass and returns nothing to *)
(* its caller, also when a cell would still need floors after that pass.    *)
C7_SinglePassNoReport ==
  Returned => (npass = 1 /\ ret = "void")

C7_Witness == Returned /\ ret = "void" /\ \E c \in Interior : StillViolates(c)

(* The x1 flux field the FOFC-flx tasks leave when run in index order *)
RECURSIVE SerialFlx(_, _)
SerialFlx(f, cells) ==
  IF cells = {} THEN f
  ELSE LET c == CHOOSE x \in cells : \A d \in cells : CellRank(x) <= CellRank(d)
       IN  SerialFlx(PatchFlx(f, c), cells \ {c})

(* C8: within a phase no two tasks write the same slot and no task reads a  *)
(* slot another task writes; the utest buffer after FOFC-newu and the flux  *)
(* field after FOFC-flx are the same for every order of the tasks.          *)
C8_RaceFree ==
  /\ \A e1 \in acc : \A e2 \in acc :
       (e1[1] # e2[1] /\ e1[2] = "w") => e1[3] # e2[3]
  /\ (pc = "newu" /\ todo = {}) =>
       \A c \in Interior : \A n \in HydVars : utest[n][c] = NewU(n, c)
  /\ Returned => flx1 = SerialFlx(InitFlx1, Interior)

C8_Witness ==
  /\ Returned
  /\ cfg.order = "any"
  /\ \E c \in FlaggedCells : Ip1(c) \in FlaggedCells
  /\ \E e1 \in acc : \E e2 \in acc : e1[1] # e2[1] /\ e1[2] = "w" /\ e2[2] = "w"

(* C9: FOFC leaves u0, u1, w0 and the ADM geometry (and the x2, x3 fluxes)  *)
(* as it found them; the candidate state goes to utest only.                *)
C9_OnlyScratchWritten ==
  /\ u0 = InitU0 /\ u1 = InitU1 /\ w0 = InitW0 /\ adm = InitAdm
  /\ flx2 = InitFlx2 /\ flx3 = InitFlx3

C9_Witness ==
  Returned /\ utest # InitUtest /\ flx1 # InitFlx1 /\ fofc # InitFofc

(* C10: once the FOFC-newu task of an interior cell has run,                *)
(* utest = gam0*u0 + gam1*u1 - divf with the coefficients of the stage,     *)
(* where divf has the x1 term always, the x2 term iff the mesh is           *)
(* multi-dimensional and the x3 term iff it is three-dimensional.           *)
C10_X1Term(n, c) ==
  RMul(RDiv(RMul(betaarr[cfg.stage], dt), mb_size.dx1),
       RSub(Flx1At(n, Ip1(c)), Flx1At(n, c)))
C10_X2Term(n, c) ==
  RMul(RDiv(RMul(betaarr[cfg.stage], dt), mb_size.dx2),
       RSub(Flx2At(n, Jp1(c)), Flx2At(n, c)))
C10_X3Term(n, c) ==
  RMul(RDiv(RMul(betaarr[cfg.stage], dt), mb_size.dx3),
       RSub(Flx3At(n, Kp1(c)), Flx3At(n, c)))
C10_CandidateFormula ==
  \A c \in Interior : \A n \in HydVars :
    (pc # "newu" \/ c \notin todo) =>
      utest[n][c] =
        RSub(RSub(RSub(RAdd(RMul(gam0arr[cfg.stage], U0At(n, c)),
                            RMul(gam1arr[cfg.stage], U1At(n, c))),
                       C10_X1Term(n, c)),
                  IF cfg.dims >= 2 THEN C10_X2Term(n, c) ELSE Zero),
             IF cfg.dims >= 3 THEN C10_X3Term(n, c) ELSE Zero)

C10_Witness ==
  /\ pc = "flx"
  /\ cfg.dims = 3
  /\ cfg.stage = 2
  /\ \A c \in Interior : \A n \in HydVars :
       C10_X2Term(n, c) # Zero /\ C10_X3Term(n, c) # Zero

-----------------------------------------------------------------------------
(* Properties of HLLE::RSolver *)

(* The physical flux of the state in column w of a table, in direction ivx *)
ExactFlux(eos, ivx, w) ==
  LET d == w[IDN]
      vn == w[ivx]
      pr == IF eos.adiabatic THEN w[IPR] ELSE RMul(SQR(eos.iso_cs), d)
      kin == RMul(RMul(Half, d), RAdd(RAdd(SQR(w[1]), SQR(w[2])), SQR(w[3])))
      e == RAdd(RDiv(w[IPR], RSub(eos.gamma, R(1))), kin)
  IN  [n \in HydVars |->
         CASE n = IDN -> RMul(d, vn)
           [] n = IEN -> RMul(RAdd(e, w[IPR]), vn)
           [] OTHER   -> RAdd(RMul(RMul(d, vn), w[n]), IF n = ivx THEN pr ELSE Zero)]

Column(w, i) == [n \in HydVars |-> w[n][i]]
RowsWritten == IF hin.eos.adiabatic THEN HydVars ELSE HydVars \ {IEN}
Solved == IF hpc = "idle" THEN {} ELSE {i \in hin.il..hin.iu : i < hi}

(* C3: at an interface whose left and right states are the same (density    *)
(* > 0), the flux written equals the physical flux of that state, in every  *)
(* direction, adiabatic or isothermal, whatever the wave-speed bounds.      *)
C3_UniformExact ==
  \A i \in Solved :
    Column(hin.wl, i) = Column(hin.wr, i) =>
      \A n \in RowsWritten :
        flx[n][i] = ExactFlux(hin.eos, hin.ivx, Column(hin.wl, i))[n]

C3_Witness ==
  /\ hpc = "done"
  /\ hin.eos.adiabatic /\ hin.ivx = IVY
  /\ \E i \in Solved :
       /\ Column(hin.wl, i) = Column(hin.wr, i)
       /\ RLt(Zero, hin.wl[IPR][i])
       /\ RLt(htr[i].bm, Zero) /\ RLt(Zero, htr[i].bp)
       /\ RAdd(htr[i].bp, htr[i].bm) # Zero

(* C5: at an interface where the clamped wave-speed bounds are equal, no    *)
(* division by (bp - bm) is made, the blend coefficient is zero and every   *)
(* flux component written is the average of the two one-sided fluxes.       *)
C5_DegenerateAverage ==
  \A i \in Solved :
    htr[i].bp = htr[i].bm =>
      /\ ~htr[i].divided
      /\ htr[i].tmp = Zero
      /\ flx[IDN][i] = RMul(Half, RAdd(htr[i].fl[IDN], htr[i].fr[IDN]))
      /\ flx[hin.ivx][i] = RMul(Half, RAdd(htr[i].fl[IVX], htr[i].fr[IVX]))
      /\ flx[Ivy(hin.ivx)][i] = RMul(Half, RAdd(htr[i].fl[IVY], htr[i].fr[IVY]))
      /\ flx[Ivz(hin.ivx)][i] = RMul(Half, RAdd(htr[i].fl[IVZ], htr[i].fr[IVZ]))
      /\ hin.eos.adiabatic =>
           flx[IEN][i] = RMul(Half, RAdd(htr[i].fl[IEN], htr[i].fr[IEN]))

C5_Witness ==
  /\ hpc = "done"
  /\ \E i \in Solved :
       /\ htr[i].bp = htr[i].bm
       /\ htr[i].fl[IDN] # htr[i].fr[IDN]
       /\ flx[hin.ivx][i] # Zero

=============================================================================
